---- MODULE Spec2Model ----
(***************************************************************************)
(* Batch quote-normalisation layer of greenhck/trader.                     *)
(*                                                                         *)
(* Two clients are modelled:                                               *)
(*   - the direct-Yahoo client documented in papertrading/README.md        *)
(*     (fetchStockData, fetchBatchStocks, fetchIndices);                   *)
(*   - the backend-proxy client of api_config.js (fetchBatchStocks).       *)
(*                                                                         *)
(* Numbers.  Upstream prices are decimal numbers with three fractional     *)
(* digits, held as integers in thousandths ("milli").  Number.toFixed(2)   *)
(* followed by parseFloat yields a number with two fractional digits, held *)
(* as an integer in hundredths ("cents"; for the percentage, hundredths of *)
(* a percent).  Arithmetic is exact decimal arithmetic; toFixed rounds to  *)
(* the nearest hundredth and picks the larger magnitude on an exact tie.   *)
(***************************************************************************)
EXTENDS Integers, Sequences, FiniteSets

\* ------------------------------------------------------------------ bounds
\* longest symbol list handed to fetchBatchStocks
MaxSymbols == 2
\* upstream prices range over base + 0..MaxMilli thousandths
MaxMilli == 6
\* longest per-interval volume series
MaxSamples == 3

\* ------------------------------------------------------- JavaScript values
Undefined == [t |-> "undefined", v |-> 0]
Null == [t |-> "null", v |-> 0]
NaN == [t |-> "NaN", v |-> 0]
Num(n) == [t |-> "number", v |-> n]
\* +Infinity (s = 1) and -Infinity (s = -1)
Infinity(s) == [t |-> "Infinity", v |-> s]
\* an array value; a missing property is Undefined
Arr(s) == [t |-> "array", v |-> s]

IsNum(x) == x.t = "number"
\* JavaScript truthiness of a number-or-missing value: 0, NaN, null and
\* undefined are falsy
Truthy(x) == IF x.t = "number" THEN x.v # 0 ELSE x.t \in {"Infinity", "array"}
\* a || b
Or(a, b) == IF Truthy(a) THEN a ELSE b
\* a || b on strings, the empty string standing for a missing property
OrStr(a, b) == IF a # "" THEN a ELSE b

Abs(n) == IF n < 0 THEN -n ELSE n
Sign(n) == IF n < 0 THEN -1 ELSE 1

\* n / d rounded to the nearest integer, ties away from zero (d > 0)
RoundDiv(n, d) ==
  LET q == Abs(n) \div d
      r == Abs(n) % d
  IN Sign(n) * (IF 2 * r >= d THEN q + 1 ELSE q)

\* variant: the digits after the second are cut off, not rounded
ToFixed2Truncate(milli) == Sign(milli) * (Abs(milli) \div 10)

\* parseFloat(x.toFixed(2)) of a number in thousandths, in hundredths
ToFixed2(milli) == RoundDiv(milli, 10)

\* (change / previousClose) * 100, then parseFloat(toFixed(2)): in hundredths
\* of a percent; division by zero gives +-Infinity, 0 / 0 gives NaN
PercentFixed2(change, previousClose) ==
  IF previousClose # 0 THEN Num(Sign(previousClose) * RoundDiv(change * 10000, Abs(previousClose)))
  ELSE IF change = 0 THEN NaN
  ELSE Infinity(Sign(change))

\* ----------------------------------------------------------- fetchStockData
RECURSIVE SeqMax(_)
SeqMax(s) ==
  IF Len(s) = 1 THEN s[1]
  ELSE LET m == SeqMax(Tail(s)) IN IF s[1] > m THEN s[1] ELSE m

RECURSIVE SeqMin(_)
SeqMin(s) ==
  IF Len(s) = 1 THEN s[1]
  ELSE LET m == SeqMin(Tail(s)) IN IF s[1] < m THEN s[1] ELSE m

NotNull(x) == x.t # "null"
Values(s) == [i \in 1..Len(s) |-> s[i].v]

\* quote.high ? Math.max(...quote.high.filter(v => v !== null)) : currentPrice
High(series, currentPrice) ==
  IF ~Truthy(series) THEN Num(currentPrice)
  ELSE LET kept == SelectSeq(series.v, NotNull)
       IN IF kept = <<>> THEN Infinity(-1) ELSE Num(SeqMax(Values(kept)))

\* quote.low ? Math.min(...quote.low.filter(v => v !== null)) : currentPrice
Low(series, currentPrice) ==
  IF ~Truthy(series) THEN Num(currentPrice)
  ELSE LET kept == SelectSeq(series.v, NotNull)
       IN IF kept = <<>> THEN Infinity(1) ELSE Num(SeqMin(Values(kept)))

\* variant: the reducer (a, b) => a + b || 0, where a missing sample makes the
\* sum NaN and the accumulator restarts from 0
RECURSIVE ReducePrecedence(_, _)
ReducePrecedence(acc, s) ==
  IF s = <<>> THEN acc
  ELSE ReducePrecedence(IF s[1].t = "undefined" THEN 0
                        ELSE acc + (IF IsNum(s[1]) THEN s[1].v ELSE 0), Tail(s))

\* the reducer (a, b) => (a || 0) + (b || 0) folded from the left over the
\* samples, starting from acc
RECURSIVE Reduce(_, _)
Reduce(acc, s) ==
  IF s = <<>> THEN acc
  ELSE Reduce((IF acc # 0 THEN acc ELSE 0) + (IF Truthy(s[1]) THEN s[1].v ELSE 0), Tail(s))

\* quote.volume ? quote.volume.reduce((a, b) => (a || 0) + (b || 0), 0) : 0
Volume(series) == IF Truthy(series) THEN Reduce(0, series.v) ELSE 0

\* meta.regularMarketPrice || quote.close[quote.close.length - 1]
\* "TypeError" when the right operand is evaluated and quote or quote.close
\* is missing
CurrentPrice(e) ==
  IF Truthy(e.regularMarketPrice) THEN e.regularMarketPrice
  ELSE IF ~e.hasQuote \/ e.close.t # "array" THEN [t |-> "TypeError", v |-> 0]
  ELSE IF e.close.v = <<>> THEN Undefined
  ELSE e.close.v[Len(e.close.v)]

\* meta.previousClose || meta.chartPreviousClose
PreviousClose(e) == Or(e.previousClose, e.chartPreviousClose)

\* variant: the error leaves fetchStockData, whose promise is rejected
Rethrown == [state |-> "rejected", value |-> Null]

\* the value fetchStockData resolves with when its try block throws
Caught == [state |-> "fulfilled", value |-> Null]

\* the object literal returned for result entry e
QuoteRecord(symbol, e) ==
  LET currentPrice == CurrentPrice(e).v
      previousClose == PreviousClose(e).v
      change == currentPrice - previousClose
  IN [t |-> "quote",
      symbol |-> symbol,
      name |-> OrStr(e.longName, OrStr(e.shortName, symbol)),
      ltp |-> ToFixed2(currentPrice),
      change |-> ToFixed2(change),
      percent |-> PercentFixed2(change, previousClose),
      exchange |-> OrStr(e.exchangeName, OrStr(e.exchange, "Unknown")),
      previousClose |-> ToFixed2(previousClose),
      high |-> High(e.high, currentPrice),
      low |-> Low(e.low, currentPrice),
      volume |-> Volume(e.volume)]

\* variant: a missing price is not noticed and counts as 0
ParseBodyDefaultPrice(symbol, resp) ==
  IF resp.kind # "data" THEN Caught
  ELSE IF resp.result = <<>> THEN Caught
  ELSE LET e == resp.result[1]
       IN IF ~e.hasMeta THEN Caught
          ELSE IF ~IsNum(PreviousClose(e)) THEN Caught
          ELSE IF ~e.hasQuote THEN Caught
          ELSE [state |-> "fulfilled", value |-> QuoteRecord(symbol, e)]

\* the part of fetchStockData that runs once response.json() has settled:
\* the settlement of the promise fetchStockData returned
ParseBody(symbol, resp) ==
  IF resp.kind # "data" THEN Caught
  ELSE IF resp.result = <<>> THEN Caught
  ELSE LET e == resp.result[1]
       IN IF ~e.hasMeta THEN Caught
          ELSE IF ~IsNum(CurrentPrice(e)) THEN Caught
          ELSE IF ~IsNum(PreviousClose(e)) THEN Caught
          ELSE IF ~e.hasQuote THEN Caught
          ELSE [state |-> "fulfilled", value |-> QuoteRecord(symbol, e)]

\* the part of fetchStockData that runs once fetch(quoteUrl) has settled: a
\* rejected fetch and a non-success status both end in the catch block,
\* otherwise the function suspends at response.json()
AfterFetch(resp) ==
  IF resp.kind \in {"reject", "notok"} THEN Caught
  ELSE [state |-> "pending", value |-> Undefined]

\* --------------------------------------------------------------- inputs
Symbols == {"TCS.NS", "BADSYM"}

\* the fixed list of fetchIndices
Indices ==
  << [symbol |-> "^NSEI", name |-> "NIFTY 50"],
     [symbol |-> "^NSEBANK", name |-> "NIFTY BANK"],
     [symbol |-> "^BSESN", name |-> "SENSEX"] >>

SeqsUpTo(S, n) == UNION {[1..k -> S] : k \in 0..n}

\* symbol lists a caller may pass, duplicates included
SymbolLists == SeqsUpTo(Symbols, MaxSymbols) \ {<<>>}

Prices ==
  {0} \cup {90000 + k : k \in 0..MaxMilli} \cup {100000 + k : k \in 0..MaxMilli}

NoBody == <<>>

Entry(rmp, close, pc, cpc, volume) ==
  [hasMeta |-> TRUE, hasQuote |-> TRUE,
   regularMarketPrice |-> rmp, close |-> close,
   previousClose |-> pc, chartPreviousClose |-> cpc,
   longName |-> "Tata Consultancy Services Limited", shortName |-> "TCS",
   exchangeName |-> "NSI", exchange |-> "NSE",
   high |-> Arr(<<Num(100900), Null>>), low |-> Arr(<<Null, Num(99100)>>),
   volume |-> volume]

GoodEntry ==
  Entry(Num(100004), Arr(<<Num(100004)>>), Num(90000), Num(90000),
        Arr(<<Num(100), Null, Num(50)>>))

Response(kind, result) == [kind |-> kind, result |-> result]

\* upstream outcomes that carry no chart result: fetch() rejected, non-success
\* status, unparsable body, body without chart.result, empty result list
FailureResponses ==
  {Response(k, NoBody) : k \in {"reject", "notok", "badjson", "nochart", "data"}}

\* outcomes of one upstream call inside a batch or an index fetch
BatchResponses ==
  FailureResponses
  \cup {Response("data", <<GoodEntry>>),
        Response("data", <<Entry(Undefined, Arr(<<>>), Num(90000), Undefined,
                                 Undefined)>>)}

PriceEntries ==
  {Entry(rmp, close, pc, cpc, Undefined) :
     rmp \in {Num(p) : p \in Prices} \cup {Undefined},
     close \in {Undefined, Arr(<<>>), Arr(<<Null>>), Arr(<<Num(100001), Num(90006)>>)},
     pc \in {Num(p) : p \in Prices} \cup {Undefined},
     cpc \in {Undefined, Num(0), Num(90002)}}

Samples == {Null, Undefined, Num(0), Num(50), Num(100)}

VolumeEntries ==
  {Entry(Num(100004), Undefined, Num(90000), Undefined, volume) :
     volume \in {Undefined} \cup {Arr(s) : s \in SeqsUpTo(Samples, MaxSamples)}}

ShapeEntries ==
  {[GoodEntry EXCEPT !.hasMeta = FALSE],
   [GoodEntry EXCEPT !.hasQuote = FALSE],
   [GoodEntry EXCEPT !.hasQuote = FALSE, !.regularMarketPrice = Undefined],
   [GoodEntry EXCEPT !.longName = ""],
   [GoodEntry EXCEPT !.longName = "", !.shortName = ""],
   [GoodEntry EXCEPT !.exchangeName = ""],
   [GoodEntry EXCEPT !.exchangeName = "", !.exchange = ""],
   [GoodEntry EXCEPT !.high = Undefined, !.low = Undefined],
   [GoodEntry EXCEPT !.high = Arr(<<Null>>), !.low = Arr(<<Null>>)]}

\* outcomes of the upstream call of a single fetchStockData
QuoteResponses ==
  FailureResponses
  \cup {Response("data", <<e>>) : e \in PriceEntries \cup VolumeEntries \cup ShapeEntries}
  \cup {Response("data", <<GoodEntry, GoodEntry>>)}

\* ------------------------------------------------------------------ state
VARIABLES
  caller,    \* which entry point runs: "batch", "indices", "proxy", "single"
  symbols,   \* the symbols it fetches, one upstream call per position
  pc,        \* "start", "awaiting" (suspended at its await), "done"
  stage,     \* per call: "idle", "fetch" (awaiting fetch), "json", "end"
  upstream,  \* per call: the upstream outcome delivered to it
  promise,   \* per call: settlement of the promise the async function returned
  requests,  \* per call: number of upstream requests issued
  ret,       \* what the entry point returned
  caught,    \* whether the entry point's own catch block ran
  order      \* the calls in the order their promises settled

vars == <<caller, symbols, pc, stage, upstream, promise, requests, ret, caught, order>>

N == Len(symbols)
Pending == [state |-> "pending", value |-> Undefined]
NoResponse == Response("none", NoBody)

Init ==
  /\ caller \in {"batch", "indices", "proxy", "single"}
  /\ symbols \in
       CASE caller = "indices" -> {[i \in 1..Len(Indices) |-> Indices[i].symbol]}
         [] caller = "single" -> {<<s>> : s \in Symbols}
         [] OTHER -> SymbolLists
  /\ pc = "start"
  /\ stage = [i \in 1..Len(symbols) |-> "idle"]
  /\ upstream = [i \in 1..Len(symbols) |-> NoResponse]
  /\ promise = [i \in 1..Len(symbols) |-> Pending]
  /\ requests = [i \in 1..Len(symbols) |-> 0]
  /\ ret = Undefined
  /\ caught = FALSE
  /\ order = <<>>

\* ---------------------------------------------------------- fetchStockData
\* fetchStockData(symbols[i]) called: it runs up to `await fetch(quoteUrl)`,
\* issuing one upstream request
Issue(i) == requests[i] + 1

\* the caller maps its list through fetchStockData: every call is made, and
\* every request issued, before the caller suspends
IssueAll ==
  /\ stage' = [i \in 1..N |-> "fetch"]
  /\ requests' = [i \in 1..N |-> Issue(i)]
  /\ pc' = "awaiting"
  /\ UNCHANGED <<caller, symbols, upstream, promise, ret, caught, order>>

\* outcomes the upstream may deliver to one call
Responses == IF caller = "single" THEN QuoteResponses ELSE BatchResponses

\* fetch(quoteUrl) of call i settles with some outcome r
FetchSettle(i) ==
  /\ caller # "proxy"
  /\ stage[i] = "fetch"
  /\ \E r \in Responses :
       /\ upstream' = [upstream EXCEPT ![i] = r]
       /\ promise' = [promise EXCEPT ![i] = AfterFetch(r)]
       /\ stage' = [stage EXCEPT ![i] = IF AfterFetch(r).state = "pending" THEN "json" ELSE "end"]
       /\ order' = IF AfterFetch(r).state = "pending" THEN order ELSE Append(order, i)
  /\ UNCHANGED <<caller, symbols, pc, requests, ret, caught>>

\* response.json() of call i settles; the rest of fetchStockData runs
JsonSettle(i) ==
  /\ caller # "proxy"
  /\ stage[i] = "json"
  /\ promise' = [promise EXCEPT ![i] = ParseBody(symbols[i], upstream[i])]
  /\ stage' = [stage EXCEPT ![i] = "end"]
  /\ order' = Append(order, i)
  /\ UNCHANGED <<caller, symbols, pc, upstream, requests, ret, caught>>

\* a direct call of fetchStockData(symbol)
FetchStockDataCall ==
  /\ caller = "single"
  /\ pc = "start"
  /\ IssueAll

\* the caller of fetchStockData resumes with the value the promise settled with
FetchStockDataReturn ==
  /\ caller = "single"
  /\ pc = "awaiting"
  /\ promise[1].state # "pending"
  /\ pc' = "done"
  /\ ret' = promise[1].value
  /\ caught' = (promise[1].state = "rejected")
  /\ UNCHANGED <<caller, symbols, stage, upstream, promise, requests, order>>

\* --------------------------------------------------------- fetchBatchStocks
\* Promise.all(promises): fulfilled once every promise is fulfilled, rejected
\* as soon as one is rejected
AllFulfilled == \A i \in 1..N : promise[i].state = "fulfilled"
AnyRejected == \E i \in 1..N : promise[i].state = "rejected"

\* variant: Promise.race, which settles with the first promise that does
JoinReadyRace == \E i \in 1..N : promise[i].state # "pending"

\* when `await Promise.all(promises)` resumes
JoinReady == AllFulfilled \/ AnyRejected

EmptyObject == <<>>
ErrorMarker == [error |-> "Failed to fetch"]

\* obj[key] = value
Put(obj, key, value) ==
  [k \in DOMAIN obj \cup {key} |-> IF k = key THEN value ELSE obj[k]]

\* a settled value used as a condition: null is falsy, an object truthy
IsObject(x) == x.t = "quote"

\* the symbols.forEach of fetchBatchStocks from position i on
RECURSIVE ForEach(_, _, _, _)
ForEach(obj, syms, results, i) ==
  IF i > Len(syms) THEN obj
  ELSE ForEach(Put(obj, syms[i],
                   IF IsObject(results[i]) THEN results[i] ELSE ErrorMarker),
               syms, results, i + 1)

\* variant: the forEach has no else branch, a failed symbol gets no key
RECURSIVE ForEachSkipFailed(_, _, _, _)
ForEachSkipFailed(obj, syms, results, i) ==
  IF i > Len(syms) THEN obj
  ELSE ForEachSkipFailed(IF IsObject(results[i]) THEN Put(obj, syms[i], results[i]) ELSE obj,
                         syms, results, i + 1)

StocksObjectSkipFailed(syms, results) == ForEachSkipFailed(EmptyObject, syms, results, 1)

\* variant: a key already present is kept, the first occurrence wins
RECURSIVE ForEachFirstWins(_, _, _, _)
ForEachFirstWins(obj, syms, results, i) ==
  IF i > Len(syms) THEN obj
  ELSE ForEachFirstWins(IF syms[i] \in DOMAIN obj THEN obj
                        ELSE Put(obj, syms[i],
                                 IF IsObject(results[i]) THEN results[i] ELSE ErrorMarker),
                        syms, results, i + 1)

StocksObjectFirstWins(syms, results) == ForEachFirstWins(EmptyObject, syms, results, 1)

StocksObject(syms, results) == ForEach(EmptyObject, syms, results, 1)

FetchBatchStocksCall ==
  /\ caller = "batch"
  /\ pc = "start"
  /\ IssueAll

\* `await Promise.all(promises)` resumes: the object is built and returned,
\* or the rejection lands in the catch block, which returns {}
FetchBatchStocksReturn ==
  /\ caller = "batch"
  /\ pc = "awaiting"
  /\ JoinReady
  /\ pc' = "done"
  /\ caught' = AnyRejected
  /\ ret' = IF AnyRejected THEN EmptyObject
            ELSE StocksObject(symbols, [i \in 1..N |-> promise[i].value])
  /\ UNCHANGED <<caller, symbols, stage, upstream, promise, requests, order>>

\* ------------------------------------------------------------- fetchIndices
\* the async arrow function applied to Indices[i], given the settlement of its
\* fetchStockData: a snapshot, or null when the data is null or the call threw
IndexResult(i, settled) ==
  IF settled.state = "fulfilled" /\ IsObject(settled.value)
  THEN [t |-> "snapshot", name |-> Indices[i].name, price |-> settled.value.ltp,
        change |-> settled.value.change, percent |-> settled.value.percent]
  ELSE Null

\* r => r !== null
IsSnapshot(r) == r.t # "null"

\* variant: the results are returned unfiltered
FilterNone(results) == results

\* results.filter(r => r !== null)
Filter(results) == SelectSeq(results, IsSnapshot)

FetchIndicesCall ==
  /\ caller = "indices"
  /\ pc = "start"
  /\ IssueAll

\* every wrapper settles once its fetchStockData has; Promise.all then resumes
FetchIndicesReturn ==
  /\ caller = "indices"
  /\ pc = "awaiting"
  /\ \A i \in 1..N : promise[i].state # "pending"
  /\ pc' = "done"
  /\ caught' = FALSE
  /\ ret' = Filter([i \in 1..N |-> IndexResult(i, promise[i])])
  /\ UNCHANGED <<caller, symbols, stage, upstream, promise, requests, order>>

\* ------------------------------------------- api_config.js fetchBatchStocks
\* a quote as the backend serialises it
BackendQuote(symbol) == QuoteRecord(symbol, GoodEntry)

\* bodies of a success response of POST /api/stocks/batch: `stocks` holds an
\* outcome for every requested symbol, or the property is missing
BackendBodies(syms) ==
  {Undefined}
  \cup {[t |-> "object", v |-> m] :
         m \in [{syms[i] : i \in 1..Len(syms)} -> {ErrorMarker} \cup {BackendQuote(s) : s \in Symbols}]}

ProxyResponses(syms) ==
  {Response(k, NoBody) : k \in {"reject", "notok", "badjson"}}
  \cup {Response("data", <<b>>) : b \in BackendBodies(syms)}

\* fetchBatchStocks(symbols) called: one POST carries the whole list
ProxyCall ==
  /\ caller = "proxy"
  /\ pc = "start"
  /\ stage' = [i \in 1..N |-> IF i = 1 THEN "fetch" ELSE "idle"]
  /\ requests' = [requests EXCEPT ![1] = Issue(1)]
  /\ pc' = "awaiting"
  /\ UNCHANGED <<caller, symbols, upstream, promise, ret, caught, order>>

\* what the catch block of the proxy client returns
ProxyCaught == EmptyObject

\* data.stocks || {}
ProxyStocks(body) == IF body.t = "object" THEN body.v ELSE EmptyObject

\* fetch(url, {method: 'POST', ...}) settles with some outcome r
ProxyFetchSettle ==
  /\ caller = "proxy"
  /\ stage[1] = "fetch"
  /\ \E r \in ProxyResponses(symbols) :
       /\ upstream' = [upstream EXCEPT ![1] = r]
       /\ IF r.kind \in {"reject", "notok"}
          THEN /\ stage' = [stage EXCEPT ![1] = "end"]
               /\ pc' = "done"
               /\ ret' = ProxyCaught
               /\ caught' = TRUE
          ELSE /\ stage' = [stage EXCEPT ![1] = "json"]
               /\ UNCHANGED <<pc, ret, caught>>
  /\ UNCHANGED <<caller, symbols, promise, requests, order>>

\* response.json() settles
ProxyJsonSettle ==
  /\ caller = "proxy"
  /\ stage[1] = "json"
  /\ stage' = [stage EXCEPT ![1] = "end"]
  /\ pc' = "done"
  /\ caught' = (upstream[1].kind # "data")
  /\ ret' = IF upstream[1].kind # "data" THEN ProxyCaught
            ELSE ProxyStocks(upstream[1].result[1])
  /\ UNCHANGED <<caller, symbols, upstream, promise, requests, order>>

\* ------------------------------------------------------------ specification
Next ==
  \/ FetchStockDataCall
  \/ FetchStockDataReturn
  \/ FetchBatchStocksCall
  \/ FetchBatchStocksReturn
  \/ FetchIndicesCall
  \/ FetchIndicesReturn
  \/ ProxyCall
  \/ ProxyFetchSettle
  \/ ProxyJsonSettle
  \/ \E i \in 1..N : FetchSettle(i)
  \/ \E i \in 1..N : JsonSettle(i)

Spec == Init /\ [][Next]_vars

\* The batch entry point alone, for the progress of its join.
BatchInit == Init /\ caller = "batch"

BatchNext ==
  \/ FetchBatchStocksCall
  \/ FetchBatchStocksReturn
  \/ \E i \in 1..N : FetchSettle(i)
  \/ \E i \in 1..N : JsonSettle(i)

\* Every upstream call eventually settles, and the event loop runs every
\* continuation that is ready.
Fairness ==
  /\ \A i \in 1..(MaxSymbols + 1) :
       /\ WF_vars(IF i \in 1..N THEN FetchSettle(i) ELSE FALSE)
       /\ WF_vars(IF i \in 1..N THEN JsonSettle(i) ELSE FALSE)
  /\ WF_vars(FetchBatchStocksCall)
  /\ WF_vars(FetchBatchStocksReturn)

FairSpec == BatchInit /\ [][BatchNext]_vars /\ Fairness

\* ------------------------------------------------------------------ claims
SymbolSet == {symbols[i] : i \in 1..N}
BatchDone == caller = "batch" /\ pc = "done"

\* the upstream gave call i no usable result: the request was rejected, the
\* status was not a success, the body did not parse, or it held no result entry
UpstreamFailed(i) ==
  \/ upstream[i].kind \in {"reject", "notok", "badjson", "nochart"}
  \/ upstream[i].kind = "data" /\ upstream[i].result = <<>>

\* the upstream gave call i a complete result entry
UpstreamGood(i) == upstream[i].kind = "data" /\ upstream[i].result = <<GoodEntry>>

Occurrences(s) == {i \in 1..N : symbols[i] = s}

\* C1: whatever the per-symbol outcomes, the mapping fetchBatchStocks returns
\* has exactly the requested symbols as its keys.
C1_KeySetEqualsInput == BatchDone => DOMAIN ret = SymbolSet

C1_Witness ==
  /\ BatchDone
  /\ Cardinality(SymbolSet) = 2
  /\ \E i, j \in 1..N : UpstreamFailed(i) /\ UpstreamGood(j)
  /\ DOMAIN ret = SymbolSet

\* C2: a symbol whose upstream call failed is mapped to the error marker, a
\* symbol whose call succeeded is mapped to its own quote, and the batch call
\* itself returns normally (its catch block does not run).
C2_PartialFailureIsolation ==
  BatchDone =>
    /\ ~caught
    /\ \A i \in 1..N :
         Occurrences(symbols[i]) = {i} =>
           /\ UpstreamFailed(i) => ret[symbols[i]] = ErrorMarker
           /\ UpstreamGood(i) =>
                /\ ret[symbols[i]].t = "quote"
                /\ ret[symbols[i]].symbol = symbols[i]
                /\ ret[symbols[i]].ltp = 10000
                /\ ret[symbols[i]].previousClose = 9000

C2_Witness ==
  /\ BatchDone
  /\ ~caught
  /\ symbols = <<"BADSYM", "TCS.NS">>
  /\ UpstreamFailed(1)
  /\ UpstreamGood(2)
  /\ ret["BADSYM"] = ErrorMarker
  /\ ret["TCS.NS"].t = "quote"

\* C3: the batch returns only after every per-symbol fetch has settled, also
\* when a fetch that failed settled before the others.
C3_JoinBarrier == BatchDone => \A i \in 1..N : promise[i].state # "pending"

C3_Witness ==
  /\ BatchDone
  /\ N = 2
  /\ UpstreamFailed(order[1])
  /\ UpstreamGood(order[2])
  /\ \A i \in 1..N : promise[i].state # "pending"

HasNumber(series) ==
  series.t = "array" /\ \E k \in 1..Len(series.v) : IsNum(series.v[k])

\* the first result entry carries a price and a previous close
HasCorePrice(resp) ==
  /\ resp.kind = "data"
  /\ resp.result # <<>>
  /\ IsNum(resp.result[1].regularMarketPrice) \/ HasNumber(resp.result[1].close)
  /\ IsNum(resp.result[1].previousClose) \/ IsNum(resp.result[1].chartPreviousClose)

\* C4: fetchStockData never rejects; on every failed upstream outcome it
\* resolves with null, and it resolves with a quote record only when a
\* result entry with the core price fields is present.
C4_FetcherNeverRaises ==
  caller # "proxy" =>
    /\ \A i \in 1..N :
         /\ promise[i].state # "rejected"
         /\ stage[i] = "end" =>
              /\ promise[i].state = "fulfilled"
              /\ promise[i].value.t \in {"null", "quote"}
              /\ UpstreamFailed(i) => promise[i].value.t = "null"
              /\ promise[i].value.t = "quote" => HasCorePrice(upstream[i])
    /\ (caller = "single" /\ pc = "done") => ~caught /\ ret = promise[1].value

C4_Witness ==
  /\ caller = "single"
  /\ pc = "done"
  /\ upstream[1].kind = "data"
  /\ upstream[1].result = <<>>
  /\ ret.t = "null"

C4_WitnessQuote ==
  /\ caller = "single"
  /\ pc = "done"
  /\ HasCorePrice(upstream[1])
  /\ ret.t = "quote"

\* the calls of fetchStockData that resolved with a quote record
Quoted == {i \in 1..N : caller # "proxy" /\ stage[i] = "end" /\ promise[i].value.t = "quote"}

\* C5 as stated: over the fields of the returned record,
\* change = round(ltp - previousClose, 2) and
\* percent = round(change / previousClose * 100, 2).
C5_DerivedFromReturnedFields ==
  \A i \in Quoted :
    LET q == promise[i].value
    IN /\ q.change = q.ltp - q.previousClose
       /\ q.previousClose # 0 =>
            /\ IsNum(q.percent)
            /\ q.percent.v = RoundDiv(q.change * 10000, q.previousClose)

\* x (hundredths) is a nearest hundredth of n / d (n in thousandths when d = 10)
Nearest(x, n, d) == 2 * Abs(x * d - n) <= d

\* C5, amended: change and percent are derived from the unrounded upstream
\* price and previous close and each is rounded to two digits on its own, as
\* are ltp and previousClose; a previous close of 0 gives a non-finite percent.
C5_DerivedFromUpstreamValues ==
  \A i \in Quoted :
    LET q == promise[i].value
        e == upstream[i].result[1]
        lastPrice == CurrentPrice(e).v
        previousClose == PreviousClose(e).v
    IN /\ Nearest(q.ltp, lastPrice, 10)
       /\ Nearest(q.previousClose, previousClose, 10)
       /\ Nearest(q.change, lastPrice - previousClose, 10)
       /\ previousClose > 0 =>
            /\ IsNum(q.percent)
            /\ Nearest(q.percent.v, (lastPrice - previousClose) * 10000, previousClose)
       /\ previousClose = 0 => ~IsNum(q.percent)

\* the example of the claim: price 100.004, previous close 90
C5_Witness ==
  \E i \in Quoted :
    /\ upstream[i].result[1].regularMarketPrice = Num(100004)
    /\ upstream[i].result[1].previousClose = Num(90000)
    /\ promise[i].value.ltp = 10000
    /\ promise[i].value.change = 1000
    /\ promise[i].value.percent = Num(1112)

\* C6: fetchIndices returns, in declaration order, the snapshots of exactly
\* the indices whose fetch gave a quote; the empty sequence when none did.
Succeeded == {i \in 1..N : promise[i].value.t = "quote"}
\* the k-th smallest member of Succeeded
Kth(k) == CHOOSE i \in Succeeded : Cardinality({j \in Succeeded : j < i}) = k - 1

C6_IndicesInOrder ==
  (caller = "indices" /\ pc = "done") =>
    /\ ~caught
    /\ Len(ret) = Cardinality(Succeeded)
    /\ Len(ret) <= Len(Indices)
    /\ \A k \in 1..Len(ret) :
         /\ ret[k].name = Indices[Kth(k)].name
         /\ ret[k].price = promise[Kth(k)].value.ltp
         /\ ret[k].change = promise[Kth(k)].value.change
         /\ ret[k].percent = promise[Kth(k)].value.percent
    /\ Succeeded = {} => ret = <<>>

C6_Witness ==
  /\ caller = "indices"
  /\ pc = "done"
  /\ UpstreamFailed(2)
  /\ order = <<3, 2, 1>>
  /\ Len(ret) = 2
  /\ ret[1].name = "NIFTY 50"
  /\ ret[2].name = "SENSEX"

C6_WitnessAllFailed ==
  /\ caller = "indices"
  /\ pc = "done"
  /\ \A i \in 1..N : UpstreamFailed(i)
  /\ ret = <<>>

\* C7: the mapping the backend-proxy client returns has one entry per
\* requested symbol, whatever the backend answered.
C7_ProxyKeySetEqualsInput ==
  (caller = "proxy" /\ pc = "done") => DOMAIN ret = SymbolSet

\* the sum of the first n samples, a null or missing sample counting 0
RECURSIVE SumSamples(_, _)
SumSamples(s, n) ==
  IF n = 0 THEN 0
  ELSE SumSamples(s, n - 1) + (IF s[n].t = "number" THEN s[n].v ELSE 0)

\* C8: the volume of a quote is the sum of the upstream samples with null and
\* missing samples counted as 0; it is a natural number, 0 without a series.
C8_VolumeIsSumOfSamples ==
  \A i \in Quoted :
    LET series == upstream[i].result[1].volume
        volume == promise[i].value.volume
    IN /\ volume \in Nat
       /\ series.t = "array" => volume = SumSamples(series.v, Len(series.v))
       /\ series.t # "array" => volume = 0

C8_Witness ==
  \E i \in Quoted :
    /\ upstream[i].result[1].volume = Arr(<<Num(100), Null, Num(50)>>)
    /\ promise[i].value.volume = 150

C8_WitnessAbsent ==
  \E i \in Quoted :
    /\ upstream[i].result[1].volume = Undefined
    /\ promise[i].value.volume = 0

\* C9: once the batch is started it eventually returns its mapping, every
\* fetch it started eventually settles, and each symbol position issues
\* exactly one upstream request, with none added after a failure.
Started(i) == IF caller = "batch" /\ i \in 1..N THEN stage[i] = "fetch" ELSE FALSE
Settled(i) == IF i \in 1..N THEN stage[i] = "end" ELSE FALSE

C9_JoinCompletes ==
  /\ (caller = "batch" /\ pc = "awaiting") ~> (BatchDone /\ ~caught /\ DOMAIN ret = SymbolSet)
  /\ \A i \in 1..(MaxSymbols + 1) :
       Started(i) ~> Settled(i)
  /\ [](caller = "batch" =>
          \A i \in 1..N : requests[i] = IF stage[i] = "idle" THEN 0 ELSE 1)

C9_Witness ==
  /\ BatchDone
  /\ N = 2
  /\ \A i \in 1..N : requests[i] = 1 /\ stage[i] = "end"
  /\ UpstreamFailed(1)
  /\ upstream[2].kind = "notok"

LastOccurrence(s) == CHOOSE i \in Occurrences(s) : \A j \in Occurrences(s) : j <= i

\* C10: with duplicates in the list the fetcher runs once per occurrence, the
\* result has one key per distinct symbol, and the key holds the outcome of
\* the last occurrence, whatever the earlier occurrences gave and whatever
\* the completion order.
C10_LastOccurrenceWins ==
  (BatchDone /\ Cardinality(SymbolSet) < N) =>
    /\ \A i \in 1..N : requests[i] = 1 /\ stage[i] = "end"
    /\ DOMAIN ret = SymbolSet
    /\ \A s \in SymbolSet :
         ret[s] = IF promise[LastOccurrence(s)].value.t = "quote"
                  THEN promise[LastOccurrence(s)].value
                  ELSE ErrorMarker

C10_Witness ==
  /\ BatchDone
  /\ symbols = <<"TCS.NS", "TCS.NS">>
  /\ UpstreamGood(1)
  /\ UpstreamFailed(2)
  /\ order = <<2, 1>>
  /\ ret["TCS.NS"] = ErrorMarker

====
